---- MODULE Spec2Model ----
(***************************************************************************)
(* A model of cli/fmt_errors.rs: the rendering of a JsError (message,      *)
(* source line, stack frames, cause chain) as text.                        *)
(*                                                                         *)
(* A Rust String is a sequence of characters, each character a one-element *)
(* TLA+ string ("a", "\t", ...); the token EAcute stands for U+00E9, which *)
(* UTF-8 encodes in two bytes, so that str::len (bytes) and chars().count  *)
(* differ.  An Option is a sequence of length at most one: None is << >>   *)
(* and Some(x) is <<x>>.  A call either returns a String or panics: Ok(s)  *)
(* or Panic.                                                               *)
(***************************************************************************)
EXTENDS Integers, Sequences, FiniteSets, TLC

VARIABLES pc, fn, args, result

vars == <<pc, fn, args, result>>

(***************************************************************************)
(* Bounds of the checked inputs.                                           *)
(***************************************************************************)
MaxLen == 3
Slack == 1
MaxCol == 5
MaxPayload == 42
MaxFrames == 2
MaxDepth == 2

(***************************************************************************)
(* Values: Option, call results, characters.                               *)
(***************************************************************************)
None == << >>
Some(x) == <<x>>

Ok(s) == [ok |-> TRUE, val |-> s]
Panic == [ok |-> FALSE, val |-> << >>]
NoResult == [ok |-> TRUE, val |-> <<"?">>]

TAB == "\t"
SP == " "
LF == "\n"
EAcute == "U+00E9"

MultiByte == {EAcute}

\* The number of bytes of one character in UTF-8.
Utf8Len(c) == IF c \in MultiByte THEN 2 ELSE 1

\* str::len: the length in bytes, one per character and one more per two-byte character.
ByteLen(s) == Len(s) + Cardinality({i \in 1..Len(s) : Utf8Len(s[i]) = 2})

\* str::is_empty
IsEmpty(s) == ByteLen(s) = 0

\* chars().nth(i): the i-th character (0-based), or None past the end.
CharsNth(s, i) == IF i >= 0 /\ i < Len(s) THEN Some(s[i + 1]) ELSE None

Repeat(c, n) == [i \in 1..n |-> c]

\* format!("{:indent$}", "", indent = level): level spaces.
Indent(level) == Repeat(SP, level)

StartsWith(s, p) == Len(p) <= Len(s) /\ SubSeq(s, 1, Len(p)) = p
EndsWith(s, p) == Len(p) <= Len(s) /\ SubSeq(s, Len(s) - Len(p) + 1, Len(s)) = p
Contains(s, p) == \E i \in 1..(Len(s) - Len(p) + 1) : SubSeq(s, i, i + Len(p) - 1) = p

\* The first position of character c in s, 0 when s has none.
Find(s, c) == IF \E i \in 1..Len(s) : s[i] = c
              THEN CHOOSE i \in 1..Len(s) : s[i] = c /\ \A j \in 1..(i - 1) : s[j] # c
              ELSE 0

\* str::get(from..to) of an ASCII string: None when the range is out of bounds.
StrGet(s, from, to) == IF 0 <= from /\ from <= to /\ to <= Len(s)
                       THEN Some(SubSeq(s, from + 1, to))
                       ELSE None

DigitChars == <<"0", "1", "2", "3", "4", "5", "6", "7", "8", "9">>

RECURSIVE NatToString(_)
NatToString(n) == IF n < 10 THEN <<DigitChars[n + 1]>>
                  ELSE NatToString(n \div 10) \o <<DigitChars[(n % 10) + 1]>>

\* i64::to_string
I64ToString(n) == IF n < 0 THEN <<"-">> \o NatToString(0 - n) ELSE NatToString(n)

(***************************************************************************)
(* crate::colors: a style wraps the text in an escape sequence and a       *)
(* reset; strip_ansi_codes removes both.                                   *)
(***************************************************************************)
Reset == "ESC[0m"
Escapes == {"ESC[36m", "ESC[33m", "ESC[31m", "ESC[1;3m", Reset}

cyan(s) == <<"ESC[36m">> \o s \o <<Reset>>
yellow(s) == <<"ESC[33m">> \o s \o <<Reset>>
red(s) == <<"ESC[31m">> \o s \o <<Reset>>
italic_bold(s) == <<"ESC[1;3m">> \o s \o <<Reset>>

strip_ansi_codes(s) == SelectSeq(s, LAMBDA c : c \notin Escapes)

(***************************************************************************)
(* String literals of the source.                                          *)
(***************************************************************************)
SOURCE_ABBREV_THRESHOLD == 150
DATA_URL_ABBREV_THRESHOLD == 150

StrMarker == <<"C", "o", "u", "l", "d", "n", "'", "t", " ", "f", "o", "r", "m", "a", "t", " ", "s", "o", "u", "r", "c", "e", " ", "l", "i", "n", "e", ":", " ">>
StrColumn == <<" ", "C", "o", "u", "l", "d", "n", "'", "t", " ", "f", "o", "r", "m", "a", "t", " ", "s", "o", "u", "r", "c", "e", " ", "l", "i", "n", "e", ":", " ", "C", "o", "l", "u", "m", "n", " ">>
StrOutOfBounds == <<" ", "i", "s", " ", "o", "u", "t", " ", "o", "f", " ", "b", "o", "u", "n", "d", "s", " ", "(", "s", "o", "u", "r", "c", "e", " ", "m", "a", "y", " ", "h", "a", "v", "e", " ", "c", "h", "a", "n", "g", "e", "d", " ", "a", "t", " ", "r", "u", "n", "t", "i", "m", "e", ")">>
StrWarning == <<"W", "a", "r", "n", "i", "n", "g">>
StrAnonymous == <<"<", "a", "n", "o", "n", "y", "m", "o", "u", "s", ">">>
StrNative == <<"n", "a", "t", "i", "v", "e">>
StrPromiseAll == <<"P", "r", "o", "m", "i", "s", "e", ".", "a", "l", "l", " ", "(", "i", "n", "d", "e", "x", " ">>
StrAsync == <<"a", "s", "y", "n", "c", " ">>
StrAs == <<" ", "[", "a", "s", " ">>
StrAt == <<" ", " ", " ", " ", "a", "t", " ">>
StrCausedBy == <<"C", "a", "u", "s", "e", "d", " ", "b", "y", ":", " ">>
StrDots == <<".", ".", ".", ".", ".", ".">>
StrNew == <<"n", "e", "w", " ">>
StrData == <<"d", "a", "t", "a">>

(***************************************************************************)
(* Url::parse, Url::scheme and Url::path (the url crate), for an absolute  *)
(* URL whose remainder after the scheme does not start with "/": leading   *)
(* and trailing C0 controls and spaces are trimmed, tabs and newlines are  *)
(* removed, the scheme is lower-cased, and the opaque path runs to the     *)
(* first "?" or "#", with C0 controls and non-ASCII percent-encoded.       *)
(***************************************************************************)
C0OrSpace == {SP, TAB, LF, "\r"}
TabOrNewline == {TAB, LF, "\r"}
UpperAlpha == {"A", "D", "T"}
LowerAlpha == {"a", "b", "c", "d", "e", "f", "g", "h", "i", "j", "k", "l", "m", "n", "o", "p", "q", "r", "s", "t", "u", "v", "w", "x", "y", "z"}

ToAsciiLower(c) == CASE c = "A" -> "a" [] c = "D" -> "d" [] c = "T" -> "t" [] OTHER -> c

IsAlpha(c) == c \in UpperAlpha \cup LowerAlpha
IsSchemeChar(c) == IsAlpha(c) \/ c \in {"0", "1", "2", "3", "4", "5", "6", "7", "8", "9", "+", "-", "."}

\* str::trim_matches(c0_control_or_space)
TrimMatches(s) ==
  LET kept == {i \in 1..Len(s) : s[i] \notin C0OrSpace}
  IN IF kept = {} THEN << >>
     ELSE SubSeq(s, CHOOSE i \in kept : \A j \in kept : i <= j,
                    CHOOSE i \in kept : \A j \in kept : j <= i)

\* Input::with_log and Input::next: what the parser reads of the input.
UrlInput(input) == SelectSeq(TrimMatches(input), LAMBDA c : c \notin TabOrNewline)

RECURSIVE PercentEncode(_)
\* utf8_percent_encode(_, CONTROLS): U+00E9 is the bytes C3 A9.
PercentEncode(s) ==
  IF s = << >> THEN << >>
  ELSE IF Len(s) = 1
  THEN (IF s[1] = EAcute THEN <<"%", "C", "3", "%", "A", "9">> ELSE s)
  ELSE PercentEncode(SubSeq(s, 1, Len(s) \div 2))
       \o PercentEncode(SubSeq(s, (Len(s) \div 2) + 1, Len(s)))

\* The remainder up to the first "?" or "#".
BeforeQueryOrFragment(s) ==
  LET stops == {i \in 1..Len(s) : s[i] \in {"?", "#"}}
  IN IF stops = {} THEN s
     ELSE SubSeq(s, 1, (CHOOSE i \in stops : \A j \in stops : i <= j) - 1)

UrlErr == [ok |-> FALSE, scheme |-> << >>, path |-> << >>]

UrlParse(file_name) ==
  LET s == UrlInput(file_name)
      colon == Find(s, ":")
  IN IF colon <= 1 THEN UrlErr
     ELSE IF ~IsAlpha(s[1]) \/ \E i \in 2..(colon - 1) : ~IsSchemeChar(s[i]) THEN UrlErr
     ELSE [ok |-> TRUE,
           scheme |-> [i \in 1..(colon - 1) |-> ToAsciiLower(s[i])],
           path |-> PercentEncode(BeforeQueryOrFragment(SubSeq(s, colon + 1, Len(s))))]

(***************************************************************************)
(* format_file_name                                                        *)
(***************************************************************************)
\* str::split_once(','): the pieces around the first ',', or None.
SplitOnceComma(s) ==
  LET i == Find(s, ",")
  IN IF i = 0 THEN None ELSE Some(<<SubSeq(s, 1, i - 1), SubSeq(s, i + 1, Len(s))>>)

\* The suffix of the payload that the abbreviation keeps.
DataEndOffByOne(payload) == StrGet(payload, Len(payload) - 21, Len(payload) - 1)
DataEnd(payload) == StrGet(payload, Len(payload) - 20, Len(payload))

\* file_name.len() > DATA_URL_ABBREV_THRESHOLD
LongerThanThreshold(file_name) == ByteLen(file_name) > DATA_URL_ABBREV_THRESHOLD

format_file_name(file_name) ==
  LET url == UrlParse(file_name)
      data_pieces == SplitOnceComma(url.path)
      data_start == StrGet(data_pieces[1][2], 0, 20)
      data_end == DataEnd(data_pieces[1][2])
  IN IF /\ LongerThanThreshold(file_name)
        /\ url.ok
        /\ url.scheme = StrData
        /\ data_pieces # None
        /\ data_start # None
        /\ data_end # None
     THEN Ok(url.scheme \o <<":">> \o data_pieces[1][1] \o <<",">>
             \o data_start[1] \o StrDots \o data_end[1])
     ELSE Ok(file_name)

(***************************************************************************)
(* format_maybe_source_line                                                *)
(***************************************************************************)
\* `column_number as usize > len`: a negative i64 wraps to at least 2^63.
AsUsizeGreater(column_number, len) == column_number < 0 \/ column_number > len

\* for _i in 0..(column_number - 1): chars().nth(_i).unwrap() panics on None;
\* otherwise one tab or space is pushed per iteration.
CaretLoop(source_line, end) ==
  IF \E i \in 0..(end - 1) : CharsNth(source_line, i) = None THEN Panic
  ELSE Ok([i \in 1..end |-> IF CharsNth(source_line, i - 1)[1] = TAB THEN TAB ELSE SP])

\* The early returns on the source line alone, in the order of the code.
MarkerBeforeLength(source_line) ==
  IF Contains(source_line, StrMarker) THEN Some(<<LF>> \o source_line)
  ELSE IF IsEmpty(source_line) \/ ByteLen(source_line) > SOURCE_ABBREV_THRESHOLD
  THEN Some(<< >>)
  ELSE None
ShortCircuit(source_line) ==
  IF IsEmpty(source_line) \/ ByteLen(source_line) > SOURCE_ABBREV_THRESHOLD
  THEN Some(<< >>)
  ELSE IF Contains(source_line, StrMarker) THEN Some(<<LF>> \o source_line)
  ELSE None

format_maybe_source_line(source_line, column_number, is_error, level) ==
  IF source_line = None \/ column_number = None THEN Ok(<< >>)
  ELSE IF ShortCircuit(source_line[1]) # None THEN Ok(ShortCircuit(source_line[1])[1])
  ELSE IF AsUsizeGreater(column_number[1], ByteLen(source_line[1]))
  THEN Ok(<<LF>> \o yellow(StrWarning) \o StrColumn
          \o I64ToString(column_number[1]) \o StrOutOfBounds)
  ELSE LET s == CaretLoop(source_line[1], column_number[1] - 1)
       IN IF ~s.ok THEN Panic
          ELSE LET underline == Append(s.val, "^")
                   color_underline == IF is_error THEN red(underline) ELSE cyan(underline)
               IN Ok(<<LF>> \o Indent(level) \o source_line[1]
                     \o <<LF>> \o Indent(level) \o color_underline)

(***************************************************************************)
(* JsStackFrame and format_location                                        *)
(***************************************************************************)
\* Option::unwrap
Unwrap(opt) == IF opt = None THEN Panic ELSE Ok(opt[1])

\* Option<bool>::unwrap_or_default and Option<i64>::unwrap_or_default
UnwrapOrFalse(opt) == IF opt = None THEN FALSE ELSE opt[1]
UnwrapOrZero(opt) == IF opt = None THEN 0 ELSE opt[1]

\* s += &t, where computing t may have panicked.
Cat(r, t) == IF r.ok /\ t.ok THEN Ok(r.val \o t.val) ELSE Panic

\* The ":line" and ":line:column" suffix of a location.
LineColumnSuffix(frame) ==
  IF frame.line_number = None THEN << >>
  ELSE <<":">> \o yellow(I64ToString(frame.line_number[1]))
       \o (IF frame.column_number = None THEN << >>
           ELSE <<":">> \o yellow(I64ToString(frame.column_number[1])))

\* The eval origin of a frame without file name: frame.eval_origin.as_ref().unwrap()
EvalOrigin(frame) ==
  LET origin == Unwrap(frame.eval_origin)
  IN IF origin.ok THEN Ok(cyan(origin.val) \o <<",", " ">>) ELSE Panic

format_location(frame) ==
  IF frame.is_native THEN Ok(cyan(StrNative))
  ELSE LET name ==
             IF frame.file_name # None
             THEN Ok(cyan(format_file_name(frame.file_name[1]).val))
             ELSE Cat(IF frame.is_eval THEN EvalOrigin(frame) ELSE Ok(<< >>),
                      Ok(cyan(StrAnonymous)))
       IN Cat(name, Ok(LineColumnSuffix(frame)))

(***************************************************************************)
(* format_frame                                                            *)
(***************************************************************************)
is_method_call(frame) == ~(UnwrapOrFalse(frame.is_top_level) \/ frame.is_constructor)

\* The name of a method call.
formatted_method(frame) ==
  IF frame.function_name # None
  THEN (IF frame.type_name # None /\ ~StartsWith(frame.function_name[1], frame.type_name[1])
        THEN frame.type_name[1] \o <<".">> ELSE << >>)
       \o frame.function_name[1]
       \o (IF frame.method_name # None /\ ~EndsWith(frame.function_name[1], frame.method_name[1])
           THEN StrAs \o frame.method_name[1] \o <<"]">> ELSE << >>)
  ELSE (IF frame.type_name # None THEN frame.type_name[1] \o <<".">> ELSE << >>)
       \o (IF frame.method_name # None THEN frame.method_name[1] ELSE StrAnonymous)

\* The text of a Promise.all frame after the "async " prefix.
PromiseAllWithLocation(frame) ==
  Cat(Ok(italic_bold(StrPromiseAll \o I64ToString(UnwrapOrZero(frame.promise_index)) \o <<")">>)),
      Cat(Ok(<<" ", "(">>), Cat(format_location(frame), Ok(<<")">>))))
PromiseAll(frame) ==
  Ok(italic_bold(StrPromiseAll \o I64ToString(UnwrapOrZero(frame.promise_index)) \o <<")">>))

\* The text of a frame without any name: the location alone.
LocationInParens(frame) == Cat(Ok(<<" ", "(">>), Cat(format_location(frame), Ok(<<")">>)))
LocationOnly(frame) == format_location(frame)

format_frame(frame) ==
  LET prefix == IF frame.is_async THEN StrAsync ELSE << >>
      location == Cat(Ok(<<" ", "(">>), Cat(format_location(frame), Ok(<<")">>)))
  IN IF frame.is_promise_all THEN Cat(Ok(prefix), PromiseAll(frame))
     ELSE IF is_method_call(frame)
     THEN Cat(Ok(prefix \o italic_bold(formatted_method(frame))), location)
     ELSE IF frame.is_constructor
     THEN Cat(Ok(prefix \o StrNew
                 \o (IF frame.function_name # None
                     THEN italic_bold(frame.function_name[1])
                     ELSE cyan(StrAnonymous))),
              location)
     ELSE IF frame.function_name # None
     THEN Cat(Ok(prefix \o italic_bold(frame.function_name[1])), location)
     ELSE Cat(Ok(prefix), LocationOnly(frame))

(***************************************************************************)
(* format_stack and Display for PrettyJsError                              *)
(***************************************************************************)
\* source_line_frame_index.and_then(|i| frames.get(i).unwrap().column_number)
HighlightColumn(source_line_frame_index, frames) ==
  IF source_line_frame_index = None THEN Ok(None)
  ELSE IF source_line_frame_index[1] >= Len(frames) THEN Panic
  ELSE Ok(frames[source_line_frame_index[1] + 1].column_number)

RECURSIVE FrameLines(_, _)
\* for frame in frames: one "\n<indent>    at <frame>" line each, in order.
FrameLines(frames, level) ==
  IF frames = << >> THEN Ok(<< >>)
  ELSE Cat(Cat(Ok(<<LF>> \o Indent(level) \o StrAt), format_frame(Head(frames))),
           FrameLines(Tail(frames), level))

format_stack(is_error, message_line, cause, source_line, source_line_frame_index, frames, level) ==
  LET column_number == HighlightColumn(source_line_frame_index, frames)
  IN IF ~column_number.ok THEN Panic
     ELSE Cat(Cat(Cat(Ok(Indent(level) \o message_line),
                      format_maybe_source_line(source_line, column_number.val, is_error, level)),
                  FrameLines(frames, level)),
              Ok(IF cause = None THEN << >>
                 ELSE <<LF>> \o Indent(level) \o StrCausedBy \o cause[1]))

RECURSIVE DisplayFmt(_)
\* <PrettyJsError as Display>::fmt: the cause is rendered first, then the report.
DisplayFmt(js_error) ==
  LET cause == IF js_error.cause = None THEN Ok(None)
               ELSE LET inner == DisplayFmt(js_error.cause[1])
                    IN IF inner.ok THEN Ok(Some(inner.val)) ELSE Panic
  IN IF ~cause.ok THEN Panic
     ELSE format_stack(TRUE, js_error.exception_message, cause.val, js_error.source_line,
                       js_error.source_line_frame_index, js_error.frames, 0)

(***************************************************************************)
(* The inputs of the checked calls.                                        *)
(***************************************************************************)
\* All strings over the characters of `alphabet` of length at most n.
StringsUpTo(alphabet, n) == UNION {[1..k -> alphabet] : k \in 0..n}

\* The first n digits "0123456789012...": a payload whose ends differ.
DigitRun(n) == [i \in 1..n |-> DigitChars[((i - 1) % 10) + 1]]

\* File names: a scheme, a header of 'h', a ',' or none, a payload, a tail.
NamePrefixes == {StrData \o <<":">>, <<"D", "A", "T", "A", ":">>,
                 <<"h", "t", "t", "p", ":">>, StrData}
HeaderLens == {0, DATA_URL_ABBREV_THRESHOLD - 50, DATA_URL_ABBREV_THRESHOLD - 20,
               DATA_URL_ABBREV_THRESHOLD + 5}
Payloads == {DigitRun(n) : n \in 0..MaxPayload} \cup {Repeat(EAcute, n) : n \in {3, 30}}
NameTails == {<< >>, <<"#", "f">>, <<SP, SP, "#", "f">>, <<SP>>}
FileNames == {p \o Repeat("h", h) \o c \o d \o t :
                p \in NamePrefixes, h \in HeaderLens, c \in {<<",">>, << >>},
                d \in Payloads, t \in NameTails}

\* Source lines: every short line, and lines around the threshold in bytes and in characters.
ShortLines == StringsUpTo({"a", TAB, EAcute}, MaxLen)
LongLines == {Repeat("a", SOURCE_ABBREV_THRESHOLD + d) : d \in (0 - Slack)..Slack}
             \cup {Repeat(EAcute, (SOURCE_ABBREV_THRESHOLD \div 2) + d) : d \in (0 - Slack)..Slack}
             \cup {Repeat(EAcute, SOURCE_ABBREV_THRESHOLD + d) : d \in (0 - Slack)..Slack}
MarkerLines == {StrMarker \o <<"x">>, <<"a">> \o StrMarker,
                StrMarker \o Repeat("a", SOURCE_ABBREV_THRESHOLD)}
SourceLines == ShortLines \cup LongLines \cup MarkerLines
ColumnNumbers == ((0 - 1)..MaxCol)
                 \cup {SOURCE_ABBREV_THRESHOLD + d : d \in (0 - Slack)..(Slack + 1)}
                 \cup {(SOURCE_ABBREV_THRESHOLD \div 2) + d : d \in (0 - Slack)..(Slack + 1)}
Levels == {0, 2}

\* Names of functions, types and methods, and a file.
NameF == <<"f">>
NameTF == <<"T", ".", "f">>
NameT == <<"T">>
NameM == <<"m">>
FileXJs == <<"x", ".", "j", "s">>
EvalAtF == <<"e", "v", "a", "l", " ", "a", "t", " ", "f">>
LongDataUrl == StrData \o <<":">> \o Repeat("h", DATA_URL_ABBREV_THRESHOLD) \o <<",">> \o DigitRun(45)

JsStackFrame(file, line, column, function, type, method, native, eval, constructor, async, promise_all, top_level, origin, index) ==
  [file_name |-> file, line_number |-> line, column_number |-> column,
   function_name |-> function, type_name |-> type, method_name |-> method,
   is_native |-> native, is_eval |-> eval, is_constructor |-> constructor,
   is_async |-> async, is_promise_all |-> promise_all, is_top_level |-> top_level,
   eval_origin |-> origin, promise_index |-> index]

OptBool == {None, Some(TRUE), Some(FALSE)}

\* Frames for format_location: every combination of the fields it reads.
LocationFrames ==
  {JsStackFrame(file, line, column, None, None, None, native, eval, FALSE, FALSE, FALSE,
                None, origin, None) :
     file \in {None, Some(FileXJs), Some(LongDataUrl)},
     line \in {None, Some(12)}, column \in {None, Some(5)},
     native \in BOOLEAN, eval \in BOOLEAN, origin \in {None, Some(EvalAtF)}}

\* Frames for format_frame: every combination of flags and present/absent fields.
Frames ==
  {JsStackFrame(pos[1], pos[2], pos[3], function, type, method, flags[1], flags[2], flags[3],
                flags[4], flags[5], top_level, origin, index) :
     pos \in {<<None, None, None>>, <<Some(FileXJs), Some(1), Some(1)>>,
              <<None, Some(3), None>>},
     function \in {None, Some(NameF), Some(NameTF)},
     type \in {None, Some(NameT)},
     method \in {None, Some(NameF), Some(NameM)},
     flags \in [1..5 -> BOOLEAN],
     top_level \in OptBool,
     origin \in {None, Some(EvalAtF)},
     index \in {None, Some(2)}}

\* A stack of distinct frames; a report holds a prefix of it.
StackFrames ==
  <<JsStackFrame(Some(FileXJs), Some(1), Some(1), Some(NameF), None, None,
                 FALSE, FALSE, FALSE, FALSE, FALSE, Some(TRUE), None, None),
    JsStackFrame(None, Some(7), Some(4), Some(NameF), Some(NameT), Some(NameM),
                 FALSE, FALSE, FALSE, TRUE, FALSE, None, None, None),
    JsStackFrame(None, None, None, None, None, None,
                 FALSE, FALSE, TRUE, FALSE, FALSE, None, None, None),
    JsStackFrame(None, None, None, None, None, None,
                 FALSE, FALSE, FALSE, FALSE, TRUE, None, None, Some(2))>>
FrameLists == {SubSeq(StackFrames, 1, n) : n \in 0..MaxFrames}

StackSourceLines == {None, Some(<<"a", TAB, "b", "c">>), Some(<<EAcute, EAcute>>)}
FrameIndexes == {None} \cup {Some(i) : i \in 0..MaxFrames}

MessageAt(depth) == <<"E">> \o NatToString(depth)

RECURSIVE JsErrors(_, _)
\* The reports whose cause chain has at most `causes` causes; the message names the depth.
JsErrors(depth, causes) ==
  {[exception_message |-> MessageAt(depth), frames |-> frames, source_line |-> src[1],
    source_line_frame_index |-> src[2], cause |-> cause] :
     frames \in FrameLists,
     src \in {<<None, None>>, <<Some(<<"a", "b">>), Some(0)>>},
     cause \in (IF causes = 0 THEN {None}
                ELSE {None} \cup {Some(e) : e \in JsErrors(depth + 1, causes - 1)})}

(***************************************************************************)
(* The state machine: a call is pending ("call") with its arguments, and   *)
(* the step of the called function leaves its result ("done").             *)
(***************************************************************************)
Init ==
  /\ pc = "call"
  /\ result = NoResult
  /\ \/ fn = "format_file_name" /\ args \in [file_name : FileNames]
     \/ fn = "format_location" /\ args \in [frame : LocationFrames]
     \/ fn = "format_frame" /\ args \in [frame : Frames]
     \/ fn = "format_maybe_source_line"
        /\ args \in [source_line : {None} \cup {Some(l) : l \in SourceLines},
                     column_number : {None} \cup {Some(c) : c \in ColumnNumbers},
                     is_error : BOOLEAN, level : Levels]
     \/ fn = "format_stack"
        /\ args \in [is_error : BOOLEAN, message_line : {MessageAt(0)},
                     cause : {None, Some(MessageAt(1))},
                     source_line : StackSourceLines,
                     source_line_frame_index : FrameIndexes,
                     frames : FrameLists, level : Levels]
     \/ fn = "fmt" /\ args \in [js_error : JsErrors(0, MaxDepth)]

Return(r) ==
  /\ pc = "call"
  /\ pc' = "done"
  /\ result' = r
  /\ UNCHANGED <<fn, args>>

FormatFileName == fn = "format_file_name" /\ Return(format_file_name(args.file_name))

FormatLocation == fn = "format_location" /\ Return(format_location(args.frame))

FormatFrame == fn = "format_frame" /\ Return(format_frame(args.frame))

FormatMaybeSourceLine ==
  /\ fn = "format_maybe_source_line"
  /\ Return(format_maybe_source_line(args.source_line, args.column_number,
                                     args.is_error, args.level))

FormatStack ==
  /\ fn = "format_stack"
  /\ Return(format_stack(args.is_error, args.message_line, args.cause, args.source_line,
                         args.source_line_frame_index, args.frames, args.level))

Fmt == fn = "fmt" /\ Return(DisplayFmt(args.js_error))

Next ==
  \/ FormatFileName
  \/ FormatLocation
  \/ FormatFrame
  \/ FormatMaybeSourceLine
  \/ FormatStack
  \/ Fmt

Spec == Init /\ [][Next]_vars

Done(f) == pc = "done" /\ fn = f

(***************************************************************************)
(* Properties.                                                             *)
(***************************************************************************)
\* The column that a bounds-checked lookup of the frame index gives.
CheckedColumn(source_line_frame_index, frames) ==
  IF source_line_frame_index = None \/ source_line_frame_index[1] >= Len(frames)
  THEN None
  ELSE frames[source_line_frame_index[1] + 1].column_number

\* C1: format_stack returns a report for every frame index: the report made with
\* the indexed frame's column when the index is in range, and with no column
\* (and no failure) when the index is not less than the number of frames.
C1_StackTotalOnFrameIndex ==
  Done("format_stack") =>
    result = Cat(Cat(Cat(Ok(Indent(args.level) \o args.message_line),
                         format_maybe_source_line(
                           args.source_line,
                           CheckedColumn(args.source_line_frame_index, args.frames),
                           args.is_error, args.level)),
                     FrameLines(args.frames, args.level)),
                 Ok(IF args.cause = None THEN << >>
                    ELSE <<LF>> \o Indent(args.level) \o StrCausedBy \o args.cause[1]))

\* A present, non-empty source line of at most 150 characters without the marker.
PlainLine(source_line) ==
  /\ source_line # None
  /\ source_line[1] # << >>
  /\ Len(source_line[1]) <= SOURCE_ABBREV_THRESHOLD
  /\ ~Contains(source_line[1], StrMarker)

\* C2: for a plain line and a column greater than its length in characters, the
\* result is the out-of-bounds warning with that column, and the call does not fail.
C2_ColumnBeyondLineWarns ==
  (/\ Done("format_maybe_source_line")
   /\ PlainLine(args.source_line)
   /\ args.column_number # None
   /\ args.column_number[1] > Len(args.source_line[1]))
  => /\ result.ok
     /\ strip_ansi_codes(result.val)
          = <<LF>> \o StrWarning \o StrColumn \o I64ToString(args.column_number[1])
              \o StrOutOfBounds

\* C3: the result is the empty string whenever the source line is absent, the
\* column is absent, the line is empty or the line is longer than 150 characters,
\* whatever the other arguments are (marker or not, column valid or not).
C3_EmptyForAbsentEmptyOrLong ==
  (/\ Done("format_maybe_source_line")
   /\ \/ args.source_line = None
      \/ args.column_number = None
      \/ args.source_line[1] = << >>
      \/ Len(args.source_line[1]) > SOURCE_ABBREV_THRESHOLD)
  => result = Ok(<< >>)

\* C3's case: a line longer than 150 characters that holds the marker, with a column.
C3_Witness ==
  /\ Done("format_maybe_source_line")
  /\ args.source_line # None
  /\ args.column_number # None
  /\ Len(args.source_line[1]) > SOURCE_ABBREV_THRESHOLD
  /\ Contains(args.source_line[1], StrMarker)
  /\ result = Ok(<< >>)

\* The caret line of column c: a tab under each tab, a space under anything else.
CaretLine(line, c) == [i \in 1..(c - 1) |-> IF line[i] = TAB THEN TAB ELSE SP] \o <<"^">>

\* C4: for a plain line of at most 150 characters and a column c from 1 to its
\* length in characters, the result without styling is newline, indentation, the
\* line, newline, indentation and the caret line of c.
C4_CaretUnderColumn ==
  (/\ Done("format_maybe_source_line")
   /\ PlainLine(args.source_line)
   /\ args.column_number # None
   /\ 1 <= args.column_number[1]
   /\ args.column_number[1] <= Len(args.source_line[1]))
  => /\ result.ok
     /\ strip_ansi_codes(result.val)
          = <<LF>> \o Indent(args.level) \o args.source_line[1]
              \o <<LF>> \o Indent(args.level)
              \o CaretLine(args.source_line[1], args.column_number[1])

\* The same with the threshold read as the code reads it, in bytes: this holds.
CaretUnderColumnWithinBytes ==
  (/\ Done("format_maybe_source_line")
   /\ PlainLine(args.source_line)
   /\ ByteLen(args.source_line[1]) <= SOURCE_ABBREV_THRESHOLD
   /\ args.column_number # None
   /\ 1 <= args.column_number[1]
   /\ args.column_number[1] <= Len(args.source_line[1]))
  => /\ result.ok
     /\ strip_ansi_codes(result.val)
          = <<LF>> \o Indent(args.level) \o args.source_line[1]
              \o <<LF>> \o Indent(args.level)
              \o CaretLine(args.source_line[1], args.column_number[1])

\* C5: format_location returns a non-empty string for every frame; for a frame
\* that is not native, has no file name, is an eval and has no eval origin, it is
\* "<anonymous>" followed by the line and column suffix.
C5_LocationTotal ==
  Done("format_location") =>
    /\ result.ok
    /\ result.val # << >>
    /\ (/\ ~args.frame.is_native
        /\ args.frame.file_name = None
        /\ args.frame.is_eval
        /\ args.frame.eval_origin = None)
       => strip_ansi_codes(result.val)
            = StrAnonymous \o strip_ansi_codes(LineColumnSuffix(args.frame))

\* A precondition of the abbreviation fails: the name has at most 150 characters,
\* is no URL, is no data URL, has no ',' in its path, or its payload is shorter
\* than 40 characters.
AbbreviationPreconditionFails(file_name) ==
  LET url == UrlParse(file_name)
      data_pieces == SplitOnceComma(url.path)
  IN \/ Len(file_name) <= DATA_URL_ABBREV_THRESHOLD
     \/ ~url.ok
     \/ url.scheme # StrData
     \/ data_pieces = None
     \/ Len(data_pieces[1][2]) < 40

\* C6: format_file_name returns its input unchanged whenever a precondition of the
\* abbreviation fails.
C6_UnchangedWhenPreconditionFails ==
  (Done("format_file_name") /\ AbbreviationPreconditionFails(args.file_name))
  => result = Ok(args.file_name)

C8_PromiseAll ==
  (Done("format_frame") /\ args.frame.is_promise_all)
  => /\ result.ok
     /\ strip_ansi_codes(result.val)
          = (IF args.frame.is_async THEN StrAsync ELSE << >>)
              \o StrPromiseAll
              \o I64ToString(IF args.frame.promise_index = None THEN 0
                             ELSE args.frame.promise_index[1])
              \o <<")">>

\* C8's case: an async Promise.all frame without index, whose location (an eval
\* without origin or file name) is never formatted.
C8_Witness ==
  /\ Done("format_frame")
  /\ args.frame.is_promise_all
  /\ args.frame.is_async
  /\ args.frame.promise_index = None
  /\ args.frame.is_eval
  /\ args.frame.file_name = None
  /\ args.frame.eval_origin = None
  /\ result.ok

\* The frame has a description: a method call, a constructor or a function name.
Described(frame) ==
  \/ ~(frame.is_top_level = Some(TRUE) \/ frame.is_constructor)
  \/ frame.is_constructor
  \/ frame.function_name # None

LocationSuffix(frame) ==
  <<" ", "(">> \o strip_ansi_codes(format_location(frame).val) \o <<")">>

RECURSIVE CauseChain(_)
\* A report and its causes, in chain order.
CauseChain(js_error) ==
  <<js_error>> \o (IF js_error.cause = None THEN << >> ELSE CauseChain(js_error.cause[1]))

\* One report's own part: message line, source indicator, one line per frame in order.
OwnPart(js_error) ==
  js_error.exception_message
  \o strip_ansi_codes(
       format_maybe_source_line(
         js_error.source_line,
         CheckedColumn(js_error.source_line_frame_index, js_error.frames),
         TRUE, 0).val)
  \o strip_ansi_codes(FrameLines(js_error.frames, 0).val)

RECURSIVE JoinCausedBy(_)
JoinCausedBy(chain) ==
  IF Len(chain) = 1 THEN OwnPart(chain[1])
  ELSE OwnPart(chain[1]) \o <<LF>> \o StrCausedBy \o JoinCausedBy(Tail(chain))

\* The number of "Caused by: " segments of a text.
CausedByCount(text) ==
  Cardinality({i \in 1..(Len(text) - Len(StrCausedBy) + 1) :
                 SubSeq(text, i, i + Len(StrCausedBy) - 1) = StrCausedBy})

\* C10: rendering a report ends with a text that is, for the report and then each
\* cause in chain order, the message line, the source indicator and one line per
\* frame in frame order, each cause after one "Caused by: ".
C10_RendersChainInOrder ==
  Done("fmt") =>
    /\ result.ok
    /\ strip_ansi_codes(result.val) = JoinCausedBy(CauseChain(args.js_error))
    /\ CausedByCount(strip_ansi_codes(result.val)) = Len(CauseChain(args.js_error)) - 1

\* The same for the reports whose frame indexes (their own and their causes') are
\* in range: this holds.
RendersChainInOrderWithIndexesInRange ==
  (/\ Done("fmt")
   /\ \A i \in 1..Len(CauseChain(args.js_error)) :
        LET e == CauseChain(args.js_error)[i]
        IN e.source_line_frame_index = None
           \/ e.source_line_frame_index[1] < Len(e.frames))
  => /\ result.ok
     /\ strip_ansi_codes(result.val) = JoinCausedBy(CauseChain(args.js_error))
     /\ CausedByCount(strip_ansi_codes(result.val)) = Len(CauseChain(args.js_error)) - 1

====
